---- MODULE Spec2Model ----
(***************************************************************************)
(* pngme: the PNG chunk codec (chunk_type.rs, chunk.rs, conversions.rs)    *)
(* and the Png container its command layer (args.rs) drives.               *)
(*                                                                         *)
(* Value conventions                                                       *)
(*   u8      a number in 0..255                                            *)
(*   u32     TLC's integers are 32-bit signed, so a u32 is held as two     *)
(*           16-bit limbs [hi, lo] with value hi * 65536 + lo              *)
(*   Vec<u8>, [u8; n]   sequences of u8 (Rust index i is TLA+ index i+1)   *)
(*   [bool; 8]          a sequence of 8 BOOLEAN, index 1 the MSB           *)
(*   String / &str      the sequence of its chars' code points             *)
(*   Result  [tag |-> "Ok", val |-> v], [tag |-> "Err", val |-> e];        *)
(*           a panic (unwrap on Err, index out of range) is                *)
(*           [tag |-> "Panic", val |-> reason]                             *)
(***************************************************************************)
EXTENDS Integers, Sequences, FiniteSets, TLC

VARIABLES pc, arg, ct, props, buf, built, res, out, flipped, png, key, found, removed, before

vars == <<pc, arg, ct, props, buf, built, res, out, flipped, png, key, found, removed, before>>

(***************************************************************************)
(* Bounds of the model                                                     *)
(***************************************************************************)
\* longest chunk payload that is constructed or parsed
MaxData == 2
\* longest string handed to ChunkType::from_str, in chars
MaxStrLen == 5
\* most chunks appended to one container
MaxChunks == 3

Ok(v) == [tag |-> "Ok", val |-> v]
Err(e) == [tag |-> "Err", val |-> e]
Panic(why) == [tag |-> "Panic", val |-> why]
None == [tag |-> "None", val |-> "None"]

RECURSIVE Pow2(_)
Pow2(n) == IF n = 0 THEN 1 ELSE 2 * Pow2(n - 1)

(***************************************************************************)
(* conversions.rs                                                          *)
(***************************************************************************)
\* (num as char).to_string(): the one-char string of code point num
u8_to_string(num) == <<num>>

\* my_char as u8: the low 8 bits of the code point
char_to_u8(my_char) == my_char % 256

\* u8_to_bits with index 0 holding the least significant bit
u8_to_bits_lsb_first(num) == [i \in 1..8 |-> ((num \div Pow2(i - 1)) % 2) = 1]

\* format!("{num:08b}") read char by char: index idx (from 0) is bit 7 - idx
u8_to_bits(num) == [i \in 1..8 |-> ((num \div Pow2(8 - i)) % 2) = 1]

RECURSIVE bits_sum(_, _)
bits_sum(rep, i) ==
    IF i > 8 THEN 0
    ELSE (IF rep[i] THEN Pow2(8 - i) ELSE 0) + bits_sum(rep, i + 1)

\* sum of 1 << (7 - idx) over the set bits; at most 255, so the u8 never wraps
bits_to_byte(rep) == bits_sum(rep, 1)

\* bytes_to_u32 with index 0 taken as the least significant byte
bytes_to_u32_le(rep) == [hi |-> rep[4] * 256 + rep[3], lo |-> rep[2] * 256 + rep[1]]

\* sum of (byte as u32) << (8 * (3 - idx)); the four terms occupy disjoint
\* bit ranges, so the u32 sum never wraps
bytes_to_u32(rep) == [hi |-> rep[1] * 256 + rep[2], lo |-> rep[3] * 256 + rep[4]]

\* imported by chunk.rs from conversions; big-endian, the inverse of
\* bytes_to_u32 (tests::test_as_bytes compares with u32::to_be_bytes)
u32_to_bytes(n) == <<n.hi \div 256, n.hi % 256, n.lo \div 256, n.lo % 256>>

\* usize as u32: keeps the low 32 bits
as_u32(n) == [hi |-> (n \div 65536) % 65536, lo |-> n % 65536]

(***************************************************************************)
(* CRC-32/ISO-HDLC as the crc crate computes it: reflected polynomial      *)
(* 0xEDB88320, initial value and final xor 0xFFFFFFFF.                     *)
(***************************************************************************)
RECURSIVE XorN(_, _, _)
XorN(a, b, n) ==
    IF n = 0 THEN 0
    ELSE (((a % 2) + (b % 2)) % 2) + 2 * XorN(a \div 2, b \div 2, n - 1)

Xor32(x, y) == [hi |-> XorN(x.hi, y.hi, 16), lo |-> XorN(x.lo, y.lo, 16)]

Shr32(x, k) == [hi |-> x.hi \div Pow2(k),
                lo |-> (x.lo \div Pow2(k)) + (x.hi % Pow2(k)) * Pow2(16 - k)]

CrcPoly == [hi |-> 60856, lo |-> 33568]

RECURSIVE CrcRounds(_, _)
CrcRounds(x, n) ==
    IF n = 0 THEN x
    ELSE CrcRounds(IF x.lo % 2 = 1 THEN Xor32(Shr32(x, 1), CrcPoly) ELSE Shr32(x, 1),
                   n - 1)

CrcTable == [i \in 0..255 |-> CrcRounds([hi |-> 0, lo |-> i], 8)]

RECURSIVE CrcUpdate(_, _, _)
CrcUpdate(x, msg, i) ==
    IF i > Len(msg) THEN x
    ELSE CrcUpdate(Xor32(CrcTable[XorN(x.lo % 256, msg[i], 8)], Shr32(x, 8)),
                   msg, i + 1)

AllOnes32 == [hi |-> 65535, lo |-> 65535]

checksum(msg) == Xor32(CrcUpdate(AllOnes32, msg, 1), AllOnes32)

(***************************************************************************)
(* chunk_type.rs                                                           *)
(***************************************************************************)
from_arr_bytes(arr) ==
    [byte_four |-> arr[1], byte_three |-> arr[2],
     byte_two |-> arr[3], byte_one |-> arr[4]]

\* not_letter with the gap between 'Z' and 'a' one short
not_letter_gap(cur_num) ==
    (cur_num < 65) \/ (cur_num > 90 /\ cur_num < 96) \/ (cur_num > 122)

not_letter(cur_num) ==
    (cur_num < 65) \/ (cur_num > 90 /\ cur_num < 97) \/ (cur_num > 122)

\* TryFrom<[u8; 4]> for ChunkType
ChunkType_try_from(nums) ==
    IF Len(nums) = 4
    THEN IF \E idx \in 1..4 : not_letter(nums[idx])
         THEN Err("ParseChunkTypeError")
         ELSE Ok(from_arr_bytes([idx \in 1..4 |-> u8_to_bits(nums[idx])]))
    ELSE Err("ParseChunkTypeError")

Utf8Len(c) == IF c < 128 THEN 1 ELSE IF c < 2048 THEN 2 ELSE IF c < 65536 THEN 3 ELSE 4

RECURSIVE str_len(_)
\* str::len: the length of the string in UTF-8 bytes
str_len(s) == IF s = <<>> THEN 0 ELSE Utf8Len(Head(s)) + str_len(Tail(s))

\* from_str counting chars where the code counts bytes
from_str_chars(s) ==
    IF Len(s) # 4
    THEN Err("ParseChunkTypeError")
    ELSE ChunkType_try_from([idx \in 1..4 |-> char_to_u8(s[idx])])

\* FromStr for ChunkType
from_str(s) ==
    IF str_len(s) # 4
    THEN Err("ParseChunkTypeError")
    ELSE IF Len(s) > 4
         THEN Panic("index out of bounds")
         ELSE ChunkType_try_from(
                  [idx \in 1..4 |-> IF idx <= Len(s) THEN char_to_u8(s[idx]) ELSE 0])

\* bytes with byte_one first
bytes_reversed(self) ==
    <<bits_to_byte(self.byte_one), bits_to_byte(self.byte_two),
      bits_to_byte(self.byte_three), bits_to_byte(self.byte_four)>>

bytes(self) ==
    <<bits_to_byte(self.byte_four), bits_to_byte(self.byte_three),
      bits_to_byte(self.byte_two), bits_to_byte(self.byte_one)>>

\* Display printing byte_one first
ChunkType_to_string_reversed(self) ==
    u8_to_string(bytes(self)[4]) \o u8_to_string(bytes(self)[3])
        \o u8_to_string(bytes(self)[2]) \o u8_to_string(bytes(self)[1])

\* Display for ChunkType
ChunkType_to_string(self) ==
    u8_to_string(bytes(self)[1]) \o u8_to_string(bytes(self)[2])
        \o u8_to_string(bytes(self)[3]) \o u8_to_string(bytes(self)[4])

is_valid(self) ==
    IF not_letter(bits_to_byte(self.byte_two))
    THEN Panic("Invalid number given. Does not map to an ASCII letter")
    ELSE Ok(~self.byte_two[3])

is_critical(self) == ~self.byte_four[3]

\* is_public reading the third byte's bit
is_public_byte_two(self) == ~self.byte_two[3]

is_public(self) == ~self.byte_three[3]

is_reserved_bit_valid(self) == is_valid(self)

is_safe_to_copy(self) == self.byte_one[3]

(***************************************************************************)
(* chunk.rs                                                                *)
(***************************************************************************)
\* Chunk::new without the splice of the type bytes in front of the data
Chunk_new_unspliced(chunk_type, data) ==
    [length |-> as_u32(Len(data)),
     chunk_type |-> chunk_type,
     chunk_data_bytes |-> data,
     crc |-> checksum(data)]

Chunk_new(chunk_type, data) ==
    [length |-> as_u32(Len(data)),
     chunk_type |-> chunk_type,
     chunk_data_bytes |-> data,
     crc |-> checksum(bytes(chunk_type) \o data)]

\* Chunk::try_from without the comparison of the computed and the stored CRC
Chunk_try_from_unchecked(data) ==
    IF Len(data) < 12
    THEN Err("ParseChunkError")
    ELSE IF Len(data) < 4
    THEN Panic("index out of bounds")
    ELSE LET length == bytes_to_u32(<<data[1], data[2], data[3], data[4]>>)
             data_end_idx == Len(data) - 4
         IN  IF data_end_idx < 8
             THEN Panic("slice index starts after its end")
             ELSE LET chunk_data_bytes == SubSeq(data, 9, data_end_idx)
                  IN  IF as_u32(Len(chunk_data_bytes)) # length
                      THEN Err("ParseChunkError")
                      ELSE LET chunk_type ==
                                   ChunkType_try_from(<<data[5], data[6], data[7], data[8]>>)
                               crc == bytes_to_u32(<<data[data_end_idx + 1],
                                                     data[data_end_idx + 2],
                                                     data[data_end_idx + 3],
                                                     data[data_end_idx + 4]>>)
                           IN  IF chunk_type.tag # "Ok"
                               THEN Panic("called Result::unwrap() on an Err value")
                               ELSE Ok([length |-> length,
                                        chunk_type |-> chunk_type.val,
                                        chunk_data_bytes |-> chunk_data_bytes,
                                        crc |-> crc])

\* TryFrom<&Vec<u8>> for Chunk.  data[i] and data[a..b] panic when out of
\* range; ChunkType::try_from(..).unwrap() panics on Err.
Chunk_try_from(data) ==
    IF Len(data) < 12
    THEN Err("ParseChunkError")
    ELSE IF Len(data) < 4
    THEN Panic("index out of bounds")
    ELSE LET length == bytes_to_u32(<<data[1], data[2], data[3], data[4]>>)
             data_end_idx == Len(data) - 4
         IN  IF data_end_idx < 8
             THEN Panic("slice index starts after its end")
             ELSE LET chunk_data_bytes == SubSeq(data, 9, data_end_idx)
                  IN  IF as_u32(Len(chunk_data_bytes)) # length
                      THEN Err("ParseChunkError")
                      ELSE LET chunk_type ==
                                   ChunkType_try_from(<<data[5], data[6], data[7], data[8]>>)
                               calculated_crc == checksum(SubSeq(data, 5, data_end_idx))
                               crc == bytes_to_u32(<<data[data_end_idx + 1],
                                                     data[data_end_idx + 2],
                                                     data[data_end_idx + 3],
                                                     data[data_end_idx + 4]>>)
                           IN  IF chunk_type.tag # "Ok"
                               THEN Panic("called Result::unwrap() on an Err value")
                               ELSE IF calculated_crc # crc
                               THEN Err("ParseChunkError")
                               ELSE Ok([length |-> length,
                                        chunk_type |-> chunk_type.val,
                                        chunk_data_bytes |-> chunk_data_bytes,
                                        crc |-> crc])

\* as_bytes with the CRC put before the data
as_bytes_crc_first(self) ==
    u32_to_bytes(self.length) \o bytes(self.chunk_type)
        \o u32_to_bytes(self.crc) \o self.chunk_data_bytes

as_bytes(self) ==
    u32_to_bytes(self.length) \o bytes(self.chunk_type)
        \o self.chunk_data_bytes \o u32_to_bytes(self.crc)

(***************************************************************************)
(* The Png container (crate::png, used by args.rs)                         *)
(***************************************************************************)
STANDARD_HEADER == <<137, 80, 78, 71, 13, 10, 26, 10>>

Png_from_chunks(chunks) == [header |-> STANDARD_HEADER, chunks |-> chunks]

RECURSIVE parse_chunks(_, _, _)
\* cursor is the number of bytes already consumed
parse_chunks(data, cursor, acc) ==
    IF cursor >= Len(data)
    THEN Ok(Png_from_chunks(acc))
    ELSE IF Len(data) - cursor < 12
    THEN Err("ParseChunkError")
    ELSE LET length == bytes_to_u32(<<data[cursor + 1], data[cursor + 2],
                                      data[cursor + 3], data[cursor + 4]>>)
         IN  IF length.hi > 0 \/ length.lo + 12 > Len(data) - cursor
             THEN Err("ParseChunkError")
             ELSE LET c == Chunk_try_from(SubSeq(data, cursor + 1,
                                                 cursor + 12 + length.lo))
                  IN  IF c.tag # "Ok"
                      THEN c
                      ELSE parse_chunks(data, cursor + 12 + length.lo,
                                        Append(acc, c.val))

Png_try_from(data) ==
    IF Len(data) < 8 \/ SubSeq(data, 1, 8) # STANDARD_HEADER
    THEN Err("ParsePngError")
    ELSE parse_chunks(data, 8, <<>>)

append_chunk(self, chunk) == [self EXCEPT !.chunks = Append(@, chunk)]

matches(chunk, chunk_type) == ChunkType_to_string(chunk.chunk_type) = chunk_type

\* index of the first chunk whose type displays as chunk_type, 0 when none does
first_index(self, chunk_type) ==
    IF \E i \in 1..Len(self.chunks) : matches(self.chunks[i], chunk_type)
    THEN CHOOSE i \in 1..Len(self.chunks) :
             /\ matches(self.chunks[i], chunk_type)
             /\ \A j \in 1..(i - 1) : ~matches(self.chunks[j], chunk_type)
    ELSE 0

chunk_by_type(self, chunk_type) ==
    LET i == first_index(self, chunk_type)
    IN  IF i = 0 THEN None ELSE Ok(self.chunks[i])

\* the removed chunk and the container that is left, or the error
remove_first_chunk(self, chunk_type) ==
    LET i == first_index(self, chunk_type)
    IN  IF i = 0
        THEN Err("chunk not found")
        ELSE Ok([chunk |-> self.chunks[i],
                 self |-> [self EXCEPT !.chunks = SubSeq(@, 1, i - 1)
                                           \o SubSeq(@, i + 1, Len(@))]])

RECURSIVE concat_chunks(_)
concat_chunks(chunks) ==
    IF chunks = <<>> THEN <<>> ELSE as_bytes(Head(chunks)) \o concat_chunks(Tail(chunks))

Png_as_bytes(self) == self.header \o concat_chunks(self.chunks)

(***************************************************************************)
(* Inputs                                                                  *)
(***************************************************************************)
SeqsUpTo(S, n) == UNION {[1..k -> S] : k \in 0..n}

RuSt == <<82, 117, 83, 116>>
Ru1t == <<82, 117, 49, 116>>

\* the edges of the two letter ranges, and the ends of u8
ByteSamples == {0, 64, 65, 90, 91, 96, 97, 122, 123, 255}

ByteArrays == [1..4 -> ByteSamples] \cup {RuSt, Ru1t}

\* '1', 'A', 'z', U+0141 (2 bytes of UTF-8, low byte 'A'),
\* U+10041 (4 bytes of UTF-8, low byte 'A')
CharSamples == {49, 65, 122, 321, 65601}

Strings == SeqsUpTo(CharSamples, MaxStrLen) \cup {RuSt, Ru1t}

PayloadBytes == {0, 255}

Payloads == SeqsUpTo(PayloadBytes, MaxData)

\* the [u8; 4] of the chunk types that chunks are constructed with
NewTypes == [1..4 -> {65, 122}] \cup {RuSt}

LenFields ==
    {<<0, 0, 0, n>> : n \in 0..MaxData} \cup {<<1, 0, 0, 0>>, <<0, 0, 1, 0>>, <<0, 0, 0, 255>>}

TypeFields == {RuSt, Ru1t, <<122, 97, 90, 65>>, <<65, 65, 65, 64>>}

\* the stored CRC of a record: the right one, or the right one minus 1 as in
\* tests::test_invalid_chunk_from_bytes
CrcField(ty, pl, good) ==
    LET c == checksum(ty \o pl)
        b == <<c.hi \div 256, c.hi % 256, c.lo \div 256, c.lo % 256>>
    IN  IF good THEN b ELSE [b EXCEPT ![4] = (@ + 255) % 256]

Records ==
    {lf \o ty \o pl \o CrcField(ty, pl, good) :
        lf \in LenFields, ty \in TypeFields, pl \in Payloads, good \in BOOLEAN}

ShortBuffers == {[i \in 1..n |-> b] : n \in 0..11, b \in {0, 65}}

Buffers == Records \cup ShortBuffers

\* byte k \div 8 (from 0) of the buffer, bit k % 8 (from the LSB), inverted
flip_bit(data, k) ==
    LET i == (k \div 8) + 1
        w == Pow2(k % 8)
    IN  [data EXCEPT ![i] = IF (@ \div w) % 2 = 1 THEN @ - w ELSE @ + w]

(***************************************************************************)
(* The state machine: a caller of the library, one action per call         *)
(***************************************************************************)
Init ==
    /\ pc = "start"
    /\ arg = <<>>
    /\ ct = None
    /\ props = None
    /\ buf = <<>>
    /\ built = None
    /\ res = None
    /\ out = <<>>
    /\ flipped = -1
    /\ png = None
    /\ key = <<>>
    /\ found = None
    /\ removed = None
    /\ before = None

\* ChunkType::try_from(nums)
TryFromBytes(nums) ==
    /\ pc = "start"
    /\ arg' = nums
    /\ ct' = ChunkType_try_from(nums)
    /\ pc' = "type_bytes"
    /\ UNCHANGED <<props, buf, built, res, out, flipped, png, key, found, removed, before>>

\* ChunkType::from_str(s)
FromStr(s) ==
    /\ pc = "start"
    /\ arg' = s
    /\ ct' = from_str(s)
    /\ pc' = "type_str"
    /\ UNCHANGED <<props, buf, built, res, out, flipped, png, key, found, removed, before>>

\* the accessors of a constructed ChunkType
Inspect ==
    /\ pc \in {"type_bytes", "type_str"}
    /\ ct.tag = "Ok"
    /\ props' = Ok([bytes |-> bytes(ct.val),
                    text |-> ChunkType_to_string(ct.val),
                    is_valid |-> is_valid(ct.val),
                    is_critical |-> is_critical(ct.val),
                    is_public |-> is_public(ct.val),
                    is_reserved_bit_valid |-> is_reserved_bit_valid(ct.val),
                    is_safe_to_copy |-> is_safe_to_copy(ct.val)])
    /\ pc' = "props"
    /\ UNCHANGED <<arg, ct, buf, built, res, out, flipped, png, key, found, removed, before>>

\* Chunk::new(ChunkType::try_from(nums).unwrap(), data)
NewChunk(nums, data) ==
    /\ pc = "start"
    /\ ChunkType_try_from(nums).tag = "Ok"
    /\ built' = Ok(Chunk_new(ChunkType_try_from(nums).val, data))
    /\ pc' = "built"
    /\ UNCHANGED <<arg, ct, props, buf, res, out, flipped, png, key, found, removed, before>>

\* built.as_bytes()
Serialize ==
    /\ pc = "built"
    /\ buf' = as_bytes(built.val)
    /\ pc' = "bytes"
    /\ UNCHANGED <<arg, ct, props, built, res, out, flipped, png, key, found, removed, before>>

\* a buffer from outside
ReadBuffer(b) ==
    /\ pc = "start"
    /\ buf' = b
    /\ pc' = "bytes"
    /\ UNCHANGED <<arg, ct, props, built, res, out, flipped, png, key, found, removed, before>>

\* Chunk::try_from(&buf)
Parse ==
    /\ pc = "bytes"
    /\ res' = Chunk_try_from(buf)
    /\ pc' = "parsed"
    /\ UNCHANGED <<arg, ct, props, buf, built, out, flipped, png, key, found, removed, before>>

\* the parsed chunk's as_bytes()
Reserialize ==
    /\ pc = "parsed"
    /\ res.tag = "Ok"
    /\ out' = as_bytes(res.val)
    /\ pc' = "reserialized"
    /\ UNCHANGED <<arg, ct, props, buf, built, res, flipped, png, key, found, removed, before>>

\* one bit of the type bytes or the payload of an accepted buffer is inverted
FlipBit(k) ==
    /\ pc = "parsed"
    /\ res.tag = "Ok"
    /\ flipped = -1
    /\ k \in 32..(8 * (Len(buf) - 4) - 1)
    /\ buf' = flip_bit(buf, k)
    /\ flipped' = k
    /\ pc' = "bytes"
    /\ UNCHANGED <<arg, ct, props, built, res, out, png, key, found, removed, before>>

\* a file's bytes, read by the command layer
ReadFile(b) ==
    /\ pc = "start"
    /\ buf' = b
    /\ pc' = "file"
    /\ UNCHANGED <<arg, ct, props, built, res, out, flipped, png, key, found, removed, before>>

\* Png::try_from(&buf)
ParsePng ==
    /\ pc = "file"
    /\ png' = Png_try_from(buf)
    /\ pc' = "png_parsed"
    /\ UNCHANGED <<arg, ct, props, buf, built, res, out, flipped, key, found, removed, before>>

\* png.as_bytes() of the container as parsed
WritePng ==
    /\ pc = "png_parsed"
    /\ png.tag = "Ok"
    /\ out' = Png_as_bytes(png.val)
    /\ pc' = "png_written"
    /\ UNCHANGED <<arg, ct, props, buf, built, res, flipped, png, key, found, removed, before>>

\* a container built fresh, with no chunks yet
OpenPng ==
    /\ pc = "start"
    /\ png' = Ok(Png_from_chunks(<<>>))
    /\ pc' = "png"
    /\ UNCHANGED <<arg, ct, props, buf, built, res, out, flipped, key, found, removed, before>>

\* png.append_chunk(Chunk::new(ChunkType::from_str(s).unwrap(), data))
AppendChunk(s, data) ==
    /\ pc = "png"
    /\ Len(png.val.chunks) < MaxChunks
    /\ from_str(s).tag = "Ok"
    /\ png' = Ok(append_chunk(png.val, Chunk_new(from_str(s).val, data)))
    /\ UNCHANGED <<pc, arg, ct, props, buf, built, res, out, flipped, key, found, removed, before>>

\* png.chunk_by_type(t)
ChunkByType(t) ==
    /\ pc = "png"
    /\ key' = t
    /\ found' = chunk_by_type(png.val, t)
    /\ pc' = "png_found"
    /\ UNCHANGED <<arg, ct, props, buf, built, res, out, flipped, png, removed, before>>

\* png.remove_first_chunk(key), for the type code just looked up
RemoveFirstChunk ==
    /\ pc = "png_found"
    /\ before' = png
    /\ LET r == remove_first_chunk(png.val, key)
       IN  /\ removed' = IF r.tag = "Ok" THEN Ok(r.val.chunk) ELSE r
           /\ png' = IF r.tag = "Ok" THEN Ok(r.val.self) ELSE png
    /\ pc' = "png_removed"
    /\ UNCHANGED <<arg, ct, props, buf, built, res, out, flipped, key, found>>

aaAA == <<97, 97, 65, 65>>
bbBB == <<98, 98, 66, 66>>
ccCC == <<99, 99, 67, 67>>

\* the chunk records of the files read: two sound ones, and ones with a
\* length that runs past the file, with a wrong CRC, with a digit in the type
FileRecords ==
    {<<0, 0, 0, 0>> \o RuSt \o CrcField(RuSt, <<>>, TRUE),
     <<0, 0, 0, 2>> \o aaAA \o <<255, 0>> \o CrcField(aaAA, <<255, 0>>, TRUE),
     <<0, 0, 0, 2>> \o RuSt \o CrcField(RuSt, <<>>, TRUE),
     <<0, 0, 0, 0>> \o RuSt \o CrcField(RuSt, <<>>, FALSE),
     <<0, 0, 0, 0>> \o Ru1t \o CrcField(Ru1t, <<>>, TRUE)}

RECURSIVE Flatten(_)
Flatten(ss) == IF ss = <<>> THEN <<>> ELSE Head(ss) \o Flatten(Tail(ss))

\* a header, right or with its last byte changed, then records, then
\* nothing or four stray bytes; and a file shorter than the header
Files ==
    {hd \o Flatten(rs) \o tl :
        hd \in {STANDARD_HEADER, [STANDARD_HEADER EXCEPT ![8] = 13]},
        rs \in SeqsUpTo(FileRecords, MaxChunks),
        tl \in {<<>>, <<0, 0, 0, 0>>}}
    \cup {<<137, 80, 78>>}

NextType ==
    \/ \E nums \in ByteArrays : TryFromBytes(nums)
    \/ \E s \in Strings : FromStr(s)
    \/ Inspect

NextChunk ==
    \/ \E nums \in NewTypes, data \in Payloads : NewChunk(nums, data)
    \/ Serialize
    \/ \E b \in Buffers : ReadBuffer(b)
    \/ Parse
    \/ Reserialize
    \/ \E k \in 32..(8 * (MaxData + 8) - 1) : FlipBit(k)

NextPng ==
    \/ \E b \in Files : ReadFile(b)
    \/ ParsePng
    \/ WritePng
    \/ OpenPng
    \/ \E s \in {aaAA, bbBB}, data \in {<<>>, <<0>>} : AppendChunk(s, data)
    \/ \E t \in {aaAA, bbBB, ccCC} : ChunkByType(t)
    \/ RemoveFirstChunk

Next == NextType \/ NextChunk \/ NextPng

\* the ChunkType constructors and accessors
SpecType == Init /\ [][NextType]_vars

\* Chunk::new, Chunk::try_from and Chunk::as_bytes
SpecChunk == Init /\ [][NextChunk]_vars

\* the Png container
SpecPng == Init /\ [][NextPng]_vars

Spec == Init /\ [][Next]_vars

(***************************************************************************)
(* Properties                                                              *)
(***************************************************************************)
IsUpper(b) == b \in 65..90
IsLower(b) == b \in 97..122
IsLetter(b) == IsUpper(b) \/ IsLower(b)

\* the bit of value 32 of a byte
Bit32(b) == (b \div 32) % 2

\* the first four bytes of b, big-endian, equal Len(b) - 12 (which is below
\* 65536 for every buffer of the model)
DeclaredMatches(b) ==
    /\ b[1] = 0
    /\ b[2] = 0
    /\ b[3] * 256 + b[4] = Len(b) - 12

\* a u32 most significant byte first
BigEndian(n) == <<n.hi \div 256, n.hi % 256, n.lo \div 256, n.lo % 256>>

\* C1: the bytes of a chunk made by Chunk::new parse back to a chunk with
\* the same length, chunk type, payload and crc.
C1_NewRoundTrip ==
    (pc = "parsed" /\ built.tag = "Ok" /\ flipped = -1) =>
        /\ res.tag = "Ok"
        /\ res.val.length = built.val.length
        /\ res.val.chunk_type = built.val.chunk_type
        /\ res.val.chunk_data_bytes = built.val.chunk_data_bytes
        /\ res.val.crc = built.val.crc

C1_Witness ==
    /\ pc = "parsed"
    /\ built.tag = "Ok"
    /\ flipped = -1
    /\ res.tag = "Ok"
    /\ Len(built.val.chunk_data_bytes) = 2
    /\ bytes(built.val.chunk_type) = RuSt

\* C2: as_bytes of a chunk that Chunk::try_from returned is the buffer that
\* was parsed: big-endian length, type bytes, payload, big-endian CRC.
C2_ParseThenSerialize ==
    pc = "reserialized" =>
        /\ out = buf
        /\ out = BigEndian(res.val.length) \o bytes(res.val.chunk_type)
                    \o res.val.chunk_data_bytes \o BigEndian(res.val.crc)
        /\ res.val.length = [hi |-> 0, lo |-> Len(res.val.chunk_data_bytes)]

C2_Witness ==
    /\ pc = "reserialized"
    /\ built.tag = "None"
    /\ Len(buf) > 12
    /\ out = buf

\* C3: a buffer of 12 bytes or more with a consistent length field and a
\* type byte that is no ASCII letter makes Chunk::try_from return
\* ParseChunkError (and not panic).
C3_InvalidTypeIsError ==
    (/\ pc = "parsed"
     /\ Len(buf) >= 12
     /\ DeclaredMatches(buf)
     /\ \E i \in 5..8 : ~IsLetter(buf[i])) =>
        (res.tag = "Err" /\ res.val = "ParseChunkError")

\* C4: an accepted buffer with one bit of its type bytes or payload
\* inverted makes Chunk::try_from return ParseChunkError.
C4_FlippedBitIsError ==
    (pc = "parsed" /\ flipped # -1) =>
        (res.tag = "Err" /\ res.val = "ParseChunkError")

\* C5: a buffer shorter than 12 bytes, or one whose big-endian length field
\* differs from its length minus 12, makes Chunk::try_from return
\* ParseChunkError whatever its type bytes and CRC are, without a panic.
C5_LengthEnforced ==
    (pc = "parsed" /\ (Len(buf) < 12 \/ ~DeclaredMatches(buf))) =>
        (res.tag = "Err" /\ res.val = "ParseChunkError")

C5_Witness ==
    /\ pc = "parsed"
    /\ Len(buf) > 12
    /\ ~DeclaredMatches(buf)
    /\ SubSeq(buf, 5, 8) = Ru1t
    /\ res.tag = "Err"

\* C6: ChunkType::try_from of a 4-byte array is Ok exactly when the four
\* bytes are ASCII letters, and ParseChunkTypeError otherwise.
C6_TryFromIffLetters ==
    pc = "type_bytes" =>
        /\ (ct.tag = "Ok") <=> (\A i \in 1..4 : IsLetter(arg[i]))
        /\ ct.tag # "Ok" => (ct.tag = "Err" /\ ct.val = "ParseChunkTypeError")

C6_Witness ==
    /\ pc = "type_bytes"
    /\ arg = Ru1t
    /\ ct.tag = "Err"

\* C7 as stated: ChunkType::from_str(s) is Ok exactly when s has 4 chars
\* and the byte code of each (the char cast to u8) is an ASCII letter, and
\* ParseChunkTypeError otherwise.
C7_FourCharsWithLetterBytes ==
    pc = "type_str" =>
        /\ (ct.tag = "Ok") <=>
               (Len(arg) = 4 /\ \A i \in 1..4 : IsLetter(arg[i] % 256))
        /\ ct.tag # "Ok" => (ct.tag = "Err" /\ ct.val = "ParseChunkTypeError")

\* C7 as amended: ChunkType::from_str(s) is Ok exactly when s is 4 chars
\* that are ASCII letters themselves (so s is 4 bytes long), and
\* ParseChunkTypeError, never a panic, otherwise.
C7_FourAsciiLetters ==
    pc = "type_str" =>
        /\ (ct.tag = "Ok") <=> (Len(arg) = 4 /\ \A i \in 1..4 : IsLetter(arg[i]))
        /\ ct.tag # "Ok" => (ct.tag = "Err" /\ ct.val = "ParseChunkTypeError")

C7_Witness ==
    /\ pc = "type_str"
    /\ arg = <<321, 65, 65, 65>>
    /\ ct.tag = "Err"

C9_ContainerRoundTrip ==
    pc = "png_written" => out = buf

C9_Witness ==
    /\ pc = "png_written"
    /\ Len(png.val.chunks) >= 2
    /\ \E i \in 1..Len(png.val.chunks) : Len(png.val.chunks[i].chunk_data_bytes) > 0
    /\ out = buf

TypeIs(chunk, t) == bytes(chunk.chunk_type) = t

\* C10: remove_first_chunk(t) on a container built by append_chunk calls
\* that holds a chunk of type t removes and returns the lowest-index chunk
\* of type t, the one chunk_by_type(t) returns, and leaves every other
\* chunk in place and in order.
C10_RemoveFirstOfType ==
    (/\ pc = "png_removed"
     /\ \E i \in 1..Len(before.val.chunks) : TypeIs(before.val.chunks[i], key)) =>
        LET cs == before.val.chunks
            i == CHOOSE n \in 1..Len(cs) :
                     /\ TypeIs(cs[n], key)
                     /\ \A m \in 1..(n - 1) : ~TypeIs(cs[m], key)
        IN  /\ removed.tag = "Ok"
            /\ removed.val = cs[i]
            /\ found.tag = "Ok"
            /\ found.val = cs[i]
            /\ png.val.chunks = SubSeq(cs, 1, i - 1) \o SubSeq(cs, i + 1, Len(cs))

C10_Witness ==
    /\ pc = "png_removed"
    /\ key = aaAA
    /\ Len(before.val.chunks) = 3
    /\ TypeIs(before.val.chunks[1], aaAA)
    /\ TypeIs(before.val.chunks[2], bbBB)
    /\ TypeIs(before.val.chunks[3], aaAA)
    /\ before.val.chunks[1] # before.val.chunks[3]
    /\ removed.tag = "Ok"
    /\ Len(png.val.chunks) = 2

(***************************************************************************)
(* CRC-32/ISO-HDLC from its definition, one message bit at a time: the     *)
(* register is the function from bit position (0 the least significant)    *)
(* to 0 or 1; the generator x^32 + x^26 + x^23 + x^22 + x^16 + x^12 +      *)
(* x^11 + x^10 + x^8 + x^7 + x^5 + x^4 + x^2 + x + 1 is reflected, so      *)
(* exponent e sits at position 31 - e.                                     *)
(***************************************************************************)
GeneratorExponents == {26, 23, 22, 16, 12, 11, 10, 8, 7, 5, 4, 2, 1, 0}

RefStep(reg, bit) ==
    LET fb == (reg[0] + bit) % 2
    IN  [i \in 0..31 |->
            ((IF i = 31 THEN 0 ELSE reg[i + 1])
                + (IF fb = 1 /\ (31 - i) \in GeneratorExponents THEN 1 ELSE 0)) % 2]

RECURSIVE RefBits(_, _, _)
\* the register after the message bits from number k on (bit k % 8 of byte
\* k \div 8, the least significant bit of a byte first)
RefBits(reg, msg, k) ==
    IF k >= 8 * Len(msg) THEN reg
    ELSE RefBits(RefStep(reg, (msg[(k \div 8) + 1] \div Pow2(k % 8)) % 2), msg, k + 1)

RECURSIVE RefValue(_, _, _)
\* the number held by the complement of register positions lo..hi
RefValue(reg, lo, hi) ==
    IF lo > hi THEN 0 ELSE (1 - reg[lo]) + 2 * RefValue(reg, lo + 1, hi)

Crc32Reference(msg) ==
    LET reg == RefBits([i \in 0..31 |-> 1], msg, 0)
    IN  [hi |-> RefValue(reg, 16, 31), lo |-> RefValue(reg, 0, 15)]

\* length is the number of payload bytes and crc the CRC-32 of the type
\* bytes followed by the payload
ChunkInvariant(c) ==
    /\ c.length = [hi |-> 0, lo |-> Len(c.chunk_data_bytes)]
    /\ c.crc = Crc32Reference(bytes(c.chunk_type) \o c.chunk_data_bytes)

\* C11: every Chunk that Chunk::new built or Chunk::try_from returned has
\* length equal to its number of payload bytes and crc equal to the
\* CRC-32/ISO-HDLC of its type bytes followed by its payload.
C11_ChunkInvariant ==
    /\ pc = "built" => ChunkInvariant(built.val)
    /\ (pc = "parsed" /\ res.tag = "Ok") => ChunkInvariant(res.val)

C11_Witness ==
    /\ pc = "parsed"
    /\ built.tag = "None"
    /\ res.tag = "Ok"
    /\ Len(res.val.chunk_data_bytes) = 2
    /\ ChunkInvariant(res.val)

\* C12: a ChunkType that ChunkType::try_from or ChunkType::from_str
\* returned stores four ASCII letters: bytes() gives letters only, and
\* is_valid and is_reserved_bit_valid return without reaching the panic.
C12_StoredBytesAreLetters ==
    /\ (pc \in {"type_bytes", "type_str"} /\ ct.tag = "Ok") =>
           \A i \in 1..4 : IsLetter(bytes(ct.val)[i])
    /\ pc = "props" =>
           /\ \A i \in 1..4 : IsLetter(props.val.bytes[i])
           /\ props.val.is_valid.tag = "Ok"
           /\ props.val.is_reserved_bit_valid.tag = "Ok"

C12_Witness ==
    /\ pc = "props"
    /\ props.val.bytes = <<65, 90, 97, 122>>
    /\ props.val.is_valid.tag = "Ok"
    /\ props.val.is_reserved_bit_valid = Ok(FALSE)

====
